---- MODULE Spec2Model ----
(***************************************************************************)
(* DeFi protocol monitor: metric store, alert store, anomaly detector,     *)
(* alert resolution and the ingestion run that drives them.                *)
(*                                                                         *)
(* Units.  Time is in hours.  TVL is in millions of USD (integers, so the  *)
(* float subtraction and division of _check_tvl_drop are exact enough for  *)
(* the comparison to be the rational one).  APY is in tenths of a percent, *)
(* utilization in percent, the TVL drop threshold in percent.              *)
(* A nullable column holds None (the empty tuple) or <<v>>.                *)
(***************************************************************************)
EXTENDS Integers, Sequences, FiniteSets, TLC

VARIABLES now, snapshots, alerts, last, pc, todo, pend, created, run, fetch

vars == <<now, snapshots, alerts, last, pc, todo, pend, created, run, fetch>>

\* the positions of the processes: detection passes, the ingestion run and
\* the TVL fetches
passVars == <<pc, todo, pend, created, run, fetch>>

----------------------------------------------------------------------------
(* Bounds of the model *)

\* the clock stops at MaxNow hours
MaxNow == 24

\* rows of the alert table
MaxAlerts == 3

\* the clock of the histories in which a protocol falls silent stops at
\* MaxIdle hours
MaxIdle == 49

----------------------------------------------------------------------------
(* Program constants *)

PROTOCOLS == <<"felix", "hlp">>

LENDING_PROTOCOLS == {"felix"}

TVL_DROP_THRESHOLD == 20

APY_MIN_THRESHOLD == 20

UTILIZATION_MAX_THRESHOLD == 95

API_RETRY_ATTEMPTS == 3

API_RETRY_DELAY_SECONDS == 1

TVL_LOOKBACK_HOURS == 24

ACTIVE_WINDOW_HOURS == 48

----------------------------------------------------------------------------
(* Nullable values and Python truthiness *)

None == << >>

Some(v) == <<v>>

\* `if x:` on an Optional[float] / Optional[Decimal]: None and 0 are falsy
Truthy(x) == x # None /\ x[1] # 0

\* `Decimal(str(x)) if x else None`
ToColumn(x) == IF Truthy(x) THEN x ELSE None

----------------------------------------------------------------------------
(* Metric store queries (ProtocolSnapshot) *)

SnapshotsOf(S, p) == {s \in S : s.protocol_name = p}

\* .filter(protocol_name == p).order_by(desc(timestamp)).first(): {} or {row}
LatestSnapshot(S, p) ==
    {s \in SnapshotsOf(S, p) :
        \A u \in SnapshotsOf(S, p) : u.timestamp <= s.timestamp}

\* .filter(protocol_name == p, timestamp <= t).order_by(desc(timestamp)).first()
LatestSnapshotAtOrBefore(S, p, t) ==
    LatestSnapshot({s \in S : s.timestamp <= t}, p)

\* _get_active_protocols without the cutoff
ActiveProtocolsAny(S, t) == {s.protocol_name : s \in S}

\* _get_active_protocols: protocols with a sample at or after now - 48h
ActiveProtocols(S, t) ==
    {s.protocol_name : s \in {u \in S : u.timestamp >= t - ACTIVE_WINDOW_HOURS}}

----------------------------------------------------------------------------
(* Rules: each yields the set of candidates (empty or one) it hands to     *)
(* _create_alert                                                           *)

\* f"{drop_pct:.1%}": the drop in tenths of a percent, rounded to nearest
DropPermille(old, cur) == (2000 * (old - cur) + old) \div (2 * old)

CandidateAlwaysCritical(p, kind, sev, msg) ==
    [protocol_name |-> p, alert_type |-> kind, severity |-> "critical",
     message |-> msg]

Candidate(p, kind, sev, msg) ==
    [protocol_name |-> p, alert_type |-> kind, severity |-> sev, message |-> msg]

\* the comparison of _check_tvl_drop with the threshold included
DropAtOrAboveThreshold(old_tvl, current_tvl) ==
    (old_tvl - current_tvl) * 100 >= TVL_DROP_THRESHOLD * old_tvl

\* drop_pct = (old_tvl - current_tvl) / old_tvl; drop_pct > self.tvl_threshold
DropAboveThreshold(old_tvl, current_tvl) ==
    (old_tvl - current_tvl) * 100 > TVL_DROP_THRESHOLD * old_tvl

TvlDropCandidate(S, t, p) ==
    LET latest == LatestSnapshot(S, p)
        old    == LatestSnapshotAtOrBefore(S, p, t - TVL_LOOKBACK_HOURS)
    IN  IF latest = {} \/ \A s \in latest : ~Truthy(s.tvl_usd) THEN {}
        ELSE IF old = {} \/ \A s \in old : ~Truthy(s.tvl_usd) THEN {}
        ELSE LET current_tvl == (CHOOSE s \in latest : TRUE).tvl_usd[1]
                 old_tvl     == (CHOOSE s \in old : TRUE).tvl_usd[1]
             IN  IF old_tvl = 0 THEN {}
                 ELSE IF DropAboveThreshold(old_tvl, current_tvl)
                      THEN {Candidate(p, "tvl_drop", "critical",
                                <<"tvl", DropPermille(old_tvl, current_tvl),
                                  old_tvl, current_tvl>>)}
                      ELSE {}

ApyLowCandidate(S, p) ==
    LET latest == LatestSnapshot(S, p)
    IN  IF latest = {} \/ \A s \in latest : ~Truthy(s.apy_7d) THEN {}
        ELSE LET apy == (CHOOSE s \in latest : TRUE).apy_7d[1]
             IN  IF apy < APY_MIN_THRESHOLD
                 THEN {Candidate(p, "apy_low", "warning", <<"apy", apy>>)}
                 ELSE {}

UtilizationHighCandidate(S, p) ==
    LET latest == LatestSnapshot(S, p)
    IN  IF latest = {} \/ \A s \in latest : ~Truthy(s.utilization_rate) THEN {}
        ELSE LET util == (CHOOSE s \in latest : TRUE).utilization_rate[1]
             IN  IF util > UTILIZATION_MAX_THRESHOLD
                 THEN {Candidate(p, "utilization_high", "warning", <<"util", util>>)}
                 ELSE {}

RuleCandidate(S, t, p, rule) ==
    CASE rule = "tvl"  -> TvlDropCandidate(S, t, p)
      [] rule = "apy"  -> ApyLowCandidate(S, p)
      [] rule = "util" -> UtilizationHighCandidate(S, p)

\* detect_all leaving a protocol after its TVL rule
RulesOfTvlOnly(p) == << <<p, "tvl">> >>

\* the rules detect_all runs for one protocol, in its order
RulesOf(p) ==
    IF p \in LENDING_PROTOCOLS
    THEN << <<p, "tvl">>, <<p, "apy">>, <<p, "util">> >>
    ELSE << <<p, "tvl">>, <<p, "apy">> >>

\* the orders in which the DISTINCT query may return the protocols
Orders(P) ==
    {o \in [1..Cardinality(P) -> P] :
        \A i, j \in DOMAIN o : i # j => o[i] # o[j]}

RECURSIVE Plan(_)
Plan(order) ==
    IF order = << >> THEN << >>
    ELSE RulesOf(Head(order)) \o Plan(Tail(order))

----------------------------------------------------------------------------
(* Alert store (ProtocolAlert): a sequence, the id is the index *)

IsOpen(a) == a.resolved_at = None

\* the query of _create_alert with the resolved_at filter inverted
ExistingResolved(A, p, kind) ==
    {i \in DOMAIN A :
        A[i].protocol_name = p /\ A[i].alert_type = kind /\ A[i].resolved_at # None}

\* the query of _create_alert without the resolved_at filter
ExistingAny(A, p, kind) ==
    {i \in DOMAIN A : A[i].protocol_name = p /\ A[i].alert_type = kind}

\* the open alerts of (protocol, kind): the query of _create_alert
ExistingOpen(A, p, kind) ==
    {i \in DOMAIN A :
        A[i].protocol_name = p /\ A[i].alert_type = kind /\ IsOpen(A[i])}

\* db.add(alert); db.commit()
InsertAlert(A, t, c) ==
    Append(A, [protocol_name |-> c.protocol_name, alert_type |-> c.alert_type,
               severity |-> c.severity, message |-> c.message,
               triggered_at |-> t, resolved_at |-> None])

\* _create_alert without the query for an open alert
CreateAlertUnchecked(A, t, c) ==
    [alerts |-> InsertAlert(A, t, c), ret |-> <<Len(A) + 1>>]

\* _create_alert refreshing the message of the open alert it finds
CreateAlertRefreshing(A, t, c) ==
    LET open == {i \in DOMAIN A : A[i].protocol_name = c.protocol_name
                                   /\ A[i].alert_type = c.alert_type
                                   /\ A[i].resolved_at = None}
    IN  IF open # {}
        THEN [alerts |-> [i \in DOMAIN A |->
                            IF i \in open THEN [A[i] EXCEPT !.message = c.message]
                            ELSE A[i]],
              ret |-> << >>]
        ELSE [alerts |-> InsertAlert(A, t, c), ret |-> <<Len(A) + 1>>]

\* _create_alert looking for an open alert of the protocol, of any kind
CreateAlertOnePerProtocol(A, t, c) ==
    IF \E i \in DOMAIN A : A[i].protocol_name = c.protocol_name /\ IsOpen(A[i])
    THEN [alerts |-> A, ret |-> << >>]
    ELSE [alerts |-> InsertAlert(A, t, c), ret |-> <<Len(A) + 1>>]

\* _create_alert, run without interruption: the store and the returned ids
CreateAlert(A, t, c) ==
    IF ExistingOpen(A, c.protocol_name, c.alert_type) # {}
    THEN [alerts |-> A, ret |-> << >>]
    ELSE [alerts |-> InsertAlert(A, t, c), ret |-> <<Len(A) + 1>>]

\* detect_all over a plan of (protocol, rule) pairs, run without interruption
RECURSIVE RunPlan(_, _, _, _, _)
RunPlan(S, t, A, plan, acc) ==
    IF plan = << >> THEN [alerts |-> A, ret |-> acc]
    ELSE LET cands == RuleCandidate(S, t, Head(plan)[1], Head(plan)[2])
         IN  IF cands = {} THEN RunPlan(S, t, A, Tail(plan), acc)
             ELSE LET r == CreateAlert(A, t, CHOOSE c \in cands : TRUE)
                  IN  RunPlan(S, t, r.alerts, Tail(plan), acc \o r.ret)

\* detect_all resolving, at its end, the open alerts whose rule returns no
\* candidate
DetectOutcomesClearing(S, t, A) ==
    {LET r == RunPlan(S, t, A, Plan(o), << >>)
         quiet(a) == RuleCandidate(S, t, a.protocol_name,
                                   CASE a.alert_type = "tvl_drop" -> "tvl"
                                     [] a.alert_type = "apy_low" -> "apy"
                                     [] OTHER -> "util") = {}
     IN  [alerts |-> [i \in DOMAIN r.alerts |->
                        IF IsOpen(r.alerts[i]) /\ quiet(r.alerts[i])
                        THEN [r.alerts[i] EXCEPT !.resolved_at = Some(t)]
                        ELSE r.alerts[i]],
          ret |-> r.ret] : o \in Orders(ActiveProtocols(S, t))}

\* the possible outcomes of one detect_all on store S, A at time t
DetectOutcomes(S, t, A) ==
    {RunPlan(S, t, A, Plan(o), << >>) : o \in Orders(ActiveProtocols(S, t))}

\* the except branch of _create_alert with the row left in the table
CreateAlertRaisedKept(A, t, c) ==
    [alerts |-> InsertAlert(A, t, c), ret |-> << >>]

\* _create_alert when db.commit() raises: rollback, error logged, None
CreateAlertRaised(A, t, c) == [alerts |-> A, ret |-> << >>]

\* _create_alert when the commits of the (protocol, kind) pairs in F raise
CreateAlertUnder(A, t, c, F) ==
    IF ExistingOpen(A, c.protocol_name, c.alert_type) = {}
           /\ <<c.protocol_name, c.alert_type>> \in F
    THEN CreateAlertRaised(A, t, c)
    ELSE CreateAlert(A, t, c)

\* detect_all over a plan when the commits of the pairs in F raise
RECURSIVE RunPlanUnder(_, _, _, _, _, _)
RunPlanUnder(S, t, A, plan, acc, F) ==
    IF plan = << >> THEN [alerts |-> A, ret |-> acc]
    ELSE LET cands == RuleCandidate(S, t, Head(plan)[1], Head(plan)[2])
         IN  IF cands = {} THEN RunPlanUnder(S, t, A, Tail(plan), acc, F)
             ELSE LET r == CreateAlertUnder(A, t, CHOOSE c \in cands : TRUE, F)
                  IN  RunPlanUnder(S, t, r.alerts, Tail(plan), acc \o r.ret, F)

DetectOutcomesUnder(S, t, A, F) ==
    {RunPlanUnder(S, t, A, Plan(o), << >>, F) : o \in Orders(ActiveProtocols(S, t))}

\* _create_alert when db.commit() succeeds and db.refresh(alert) raises: the
\* row is committed, the rollback undoes nothing, error logged, None
CreateAlertRefreshRaised(A, t, c) ==
    [alerts |-> InsertAlert(A, t, c), ret |-> << >>]

\* _create_alert when the refreshes of the (protocol, kind) pairs in G raise
CreateAlertUnderRefresh(A, t, c, G) ==
    IF ExistingOpen(A, c.protocol_name, c.alert_type) = {}
           /\ <<c.protocol_name, c.alert_type>> \in G
    THEN CreateAlertRefreshRaised(A, t, c)
    ELSE CreateAlert(A, t, c)

\* detect_all over a plan when the refreshes of the pairs in G raise
RECURSIVE RunPlanUnderRefresh(_, _, _, _, _, _)
RunPlanUnderRefresh(S, t, A, plan, acc, G) ==
    IF plan = << >> THEN [alerts |-> A, ret |-> acc]
    ELSE LET cands == RuleCandidate(S, t, Head(plan)[1], Head(plan)[2])
         IN  IF cands = {} THEN RunPlanUnderRefresh(S, t, A, Tail(plan), acc, G)
             ELSE LET r == CreateAlertUnderRefresh(A, t, CHOOSE c \in cands : TRUE, G)
                  IN  RunPlanUnderRefresh(S, t, r.alerts, Tail(plan), acc \o r.ret, G)

DetectOutcomesUnderRefresh(S, t, A, G) ==
    {RunPlanUnderRefresh(S, t, A, Plan(o), << >>, G) :
        o \in Orders(ActiveProtocols(S, t))}

\* detect_all when a query of the pass raises: _get_active_protocols (no
\* rule has run) or a rule's query after n steps of the plan.  The alerts
\* committed before the exception stay; the list is lost with the exception
DetectOutcomesRaising(S, t, A) ==
    UNION {{[alerts |-> RunPlan(S, t, A, SubSeq(Plan(o), 1, n), << >>).alerts,
             ret |-> << >>] : n \in 0..(Len(Plan(o)) - 1)} \cup {[alerts |-> A, ret |-> << >>]}
              : o \in Orders(ActiveProtocols(S, t))}

\* the (protocol, rule) pairs detect_all evaluates on S at time t
Evaluated(S, t) ==
    UNION {{RulesOf(p)[k] : k \in DOMAIN RulesOf(p)} : p \in ActiveProtocols(S, t)}

\* the (protocol, kind) pairs a pass on S, A at time t tries to commit
Committing(S, t, A) ==
    {<<c.protocol_name, c.alert_type>> :
        c \in {x \in UNION {RuleCandidate(S, t, d[1], d[2]) : d \in Evaluated(S, t)} :
                  ExistingOpen(A, x.protocol_name, x.alert_type) = {}}}

\* resolve_alert without the already-resolved check
ResolveOutcomeAgain(A, t, id) ==
    IF id \notin DOMAIN A THEN [alerts |-> A, code |-> 404]
    ELSE [alerts |-> [A EXCEPT ![id].resolved_at = Some(t)], code |-> 200]

\* resolve_alert answering not-found for an alert that is already resolved
ResolveOutcomeOneRejection(A, t, id) ==
    IF id \notin DOMAIN A THEN [alerts |-> A, code |-> 404]
    ELSE IF A[id].resolved_at # None THEN [alerts |-> A, code |-> 404]
    ELSE [alerts |-> [A EXCEPT ![id].resolved_at = Some(t)], code |-> 200]

\* resolve_alert also stamping triggered_at
ResolveOutcomeRestamp(A, t, id) ==
    IF id \notin DOMAIN A THEN [alerts |-> A, code |-> 404]
    ELSE IF A[id].resolved_at # None THEN [alerts |-> A, code |-> 400]
    ELSE [alerts |-> [A EXCEPT ![id].resolved_at = Some(t), ![id].triggered_at = t],
          code |-> 200]

\* resolve_alert: the store afterwards and the HTTP status answered
ResolveOutcome(A, t, id) ==
    IF id \notin DOMAIN A THEN [alerts |-> A, code |-> 404]
    ELSE IF A[id].resolved_at # None THEN [alerts |-> A, code |-> 400]
    ELSE [alerts |-> [A EXCEPT ![id].resolved_at = Some(t)], code |-> 200]

----------------------------------------------------------------------------
(* Status projection (GET /protocols) *)

\* the open alerts of protocol p with severity sev: a query of
\* _get_protocol_status
OpenOfSeverity(A, p, sev) ==
    {i \in DOMAIN A :
        A[i].protocol_name = p /\ A[i].severity = sev /\ A[i].resolved_at = None}

\* _get_protocol_status without the resolved_at filters
GetProtocolStatusOfAllAlerts(A, p) ==
    IF \E i \in DOMAIN A : A[i].protocol_name = p /\ A[i].severity = "critical"
    THEN "critical"
    ELSE IF \E i \in DOMAIN A : A[i].protocol_name = p /\ A[i].severity = "warning"
         THEN "warning"
         ELSE "healthy"

\* _get_protocol_status
GetProtocolStatus(A, p) ==
    IF OpenOfSeverity(A, p, "critical") # {} THEN "critical"
    ELSE IF OpenOfSeverity(A, p, "warning") # {} THEN "warning"
    ELSE "healthy"

\* get_protocols: the (name, status) pairs answered, one per protocol that
\* has a sample
ProtocolStatuses(S, A) ==
    {<<p, GetProtocolStatus(A, p)>> : p \in {s.protocol_name : s \in S}}

----------------------------------------------------------------------------
(* Alert listing (GET /alerts).  A query is <<status, protocol, severity>>,  *)
(* the last two None when the parameter is not given                         *)

\* the filters of get_alerts with status=resolved filtering nothing
AlertMatchesResolvedAsAll(a, status, protocol, severity) ==
    /\ status = "open" => a.resolved_at = None
    /\ protocol # None => a.protocol_name = protocol[1]
    /\ severity # None => a.severity = severity[1]

\* the filters of get_alerts
AlertMatches(a, status, protocol, severity) ==
    /\ status = "open" => a.resolved_at = None
    /\ status = "resolved" => a.resolved_at # None
    /\ protocol # None => a.protocol_name = protocol[1]
    /\ severity # None => a.severity = severity[1]

\* query.order_by(desc(triggered_at)).all(): the lists of ids it may return
\* (alerts with equal triggered_at come in any order)
GetAlertsResults(A, status, protocol, severity) ==
    LET ids == {i \in DOMAIN A : AlertMatches(A[i], status, protocol, severity)}
    IN  {o \in [1..Cardinality(ids) -> ids] :
            /\ \A i, j \in DOMAIN o : i # j => o[i] # o[j]
            /\ \A i, j \in DOMAIN o :
                  i < j => A[o[i]].triggered_at >= A[o[j]].triggered_at}

----------------------------------------------------------------------------
(* Slack notification (SlackNotifier.send_alert).  webhook is the configured *)
(* URL or None; answer is what the POST to it ends in                        *)

Answers == {"200", "500", "timeout", "error"}

\* send_alert letting a timeout of the POST escape to the caller
SendAlertOutcomeTimeoutEscapes(A, webhook, answer) ==
    IF webhook = None
    THEN [alerts |-> A, error |-> FALSE, ret |-> Some(FALSE)]
    ELSE IF answer = "timeout"
         THEN [alerts |-> A, error |-> TRUE, ret |-> None]
         ELSE [alerts |-> A, error |-> FALSE, ret |-> Some(answer = "200")]

\* send_alert: the store after it, whether it raised, and what it returned
SendAlertOutcome(A, webhook, answer) ==
    IF webhook = None
    THEN [alerts |-> A, error |-> FALSE, ret |-> Some(FALSE)]
    ELSE CASE answer = "200" -> [alerts |-> A, error |-> FALSE, ret |-> Some(TRUE)]
           [] answer = "timeout" -> [alerts |-> A, error |-> FALSE, ret |-> Some(FALSE)]
           [] answer = "error" -> [alerts |-> A, error |-> FALSE, ret |-> Some(FALSE)]
           [] OTHER -> [alerts |-> A, error |-> FALSE, ret |-> Some(FALSE)]

----------------------------------------------------------------------------
(* Entry point of the ingestion script (ingest.main) *)

\* the loop over zip(["felix", "hlp"], outcomes): a task that returned True
\* counts as successful, one that returned False or raised as failed
CountOutcomes(outcomes) ==
    <<Cardinality({k \in DOMAIN outcomes : outcomes[k]}),
      Cardinality({k \in DOMAIN outcomes : ~outcomes[k]})>>

\* ingest_all letting the exception of detect_all through: no counts
IngestAllReturnPropagating(outcomes, raised) ==
    IF raised THEN [counts |-> << >>, error |-> TRUE]
    ELSE [counts |-> CountOutcomes(outcomes), error |-> FALSE]

\* the end of ingest_all: _run_anomaly_detection catches and logs what
\* detect_all raises, then `return successful, failed`
IngestAllReturn(outcomes, raised) ==
    [counts |-> CountOutcomes(outcomes), error |-> FALSE]

\* main exiting non-zero only when no protocol was ingested
ExitStatusOnTotalFailure(counts) == IF counts[1] = 0 THEN 1 ELSE 0

\* successful, failed = await ingestor.ingest_all(); exit(1) if failed > 0
\* else exit(0)
ExitStatus(counts) == IF counts[2] > 0 THEN 1 ELSE 0

----------------------------------------------------------------------------
(* Storing a sample (DataIngestor._store_snapshot) *)

SnapshotRow(p, ts, m) ==
    [protocol_name |-> p, timestamp |-> ts, tvl_usd |-> ToColumn(m.tvl_usd),
     apy_7d |-> ToColumn(m.apy_7d),
     utilization_rate |-> ToColumn(m.utilization_rate)]

\* uq_protocol_timestamp: the commit raises IntegrityError
Conflicts(S, p, ts) == \E s \in S : s.protocol_name = p /\ s.timestamp = ts

\* _store_snapshot overwriting the row it conflicts with
StoreSnapshotUpsert(S, p, ts, m) ==
    [snapshots |-> {s \in S : ~(s.protocol_name = p /\ s.timestamp = ts)}
                      \cup {SnapshotRow(p, ts, m)},
     ok |-> m.tvl_usd # None]

\* the store after the call and the value returned.  After a successful
\* commit the log line formats tvl_usd with ":,.2f"; for None that raises
\* TypeError, which the generic handler turns into False (the rollback has
\* nothing left to undo).
StoreSnapshot(S, p, ts, m) ==
    IF Conflicts(S, p, ts)
    THEN [snapshots |-> S, ok |-> TRUE]
    ELSE [snapshots |-> S \cup {SnapshotRow(p, ts, m)},
          ok |-> m.tvl_usd # None]

\* _ingest_felix / _ingest_hlp: f is {} when fetch_metrics raised, else {m}
\* with m the metrics fetched
IngestOne(S, p, ts, f) ==
    IF f = {} THEN [snapshots |-> S, ok |-> FALSE]
    ELSE StoreSnapshot(S, p, ts, CHOOSE m \in f : TRUE)

\* what the commit of the sample f met: no row of the pair ("none"), a row
\* with the same values ("same") or a row with other values ("other")
ConflictSeen(S, p, ts, f) ==
    IF f = {} \/ ~Conflicts(S, p, ts) THEN "none"
    ELSE IF \E m \in f : SnapshotRow(p, ts, m) \in S THEN "same"
    ELSE "other"

\* what a fetcher may hand back when its metrics range over F
FetchResults(F) == {{}} \cup {{m} : m \in F}

----------------------------------------------------------------------------
(* State *)

Procs == {1, 2}

NoLast ==
    [op |-> "init", id |-> 0, code |-> 0, created |-> << >>,
     second |-> FALSE, fetched |-> << >>, conflict |-> << >>,
     stored |-> << >>, counts |-> << >>, status |-> {}, raised |-> {},
     query |-> << >>, listed |-> << >>, sent |-> None, error |-> FALSE,
     unread |-> {}, exit |-> 0, aborted |-> FALSE]

\* fetch_tvl has not been called
NoFetch ==
    [pc |-> "idle", attempt |-> 0, requests |-> 0, responses |-> << >>,
     result |-> None, slept |-> 0]

\* no ingestion run has started
NoRun ==
    [phase |-> "idle", timestamp |-> 0, tasks |-> <<"done", "done">>,
     fetched |-> <<FALSE, FALSE>>, outcomes |-> <<FALSE, FALSE>>,
     order |-> << >>, detections |-> 0]

Init ==
    /\ now = 0
    /\ snapshots = {}
    /\ alerts = << >>
    /\ last = NoLast
    /\ pc = [p \in Procs |-> "idle"]
    /\ todo = [p \in Procs |-> << >>]
    /\ pend = [p \in Procs |-> {}]
    /\ created = [p \in Procs |-> << >>]
    /\ run = NoRun
    /\ fetch = [k \in DOMAIN PROTOCOLS |-> NoFetch]

----------------------------------------------------------------------------
(* Operations, each run to completion *)

\* the clock advances by one of the steps D
Tick(D) ==
    /\ \E d \in D :
          /\ now + d <= MaxNow
          /\ now' = now + d
    /\ last' = [NoLast EXCEPT !.op = "tick"]
    /\ UNCHANGED <<snapshots, alerts, passVars>>

\* the clock advances by one of the steps D, up to limit
TickUntil(D, limit) ==
    /\ \E d \in D :
          /\ now + d <= limit
          /\ now' = now + d
    /\ last' = [NoLast EXCEPT !.op = "tick"]
    /\ UNCHANGED <<snapshots, alerts, passVars>>

\* AnomalyDetector.detect_all
DetectAll ==
    /\ \E r \in DetectOutcomes(snapshots, now, alerts) :
          /\ Len(r.alerts) <= MaxAlerts
          /\ alerts' = r.alerts
          /\ last' = [NoLast EXCEPT !.op = "detect", !.created = r.ret,
                                    !.second = last.op \in {"detect", "ingest"}]
    /\ UNCHANGED <<now, snapshots, passVars>>

\* AnomalyDetector.detect_all while the storage fails some of its commits
DetectAllFaulty ==
    /\ \E F \in SUBSET Committing(snapshots, now, alerts) :
          \E r \in DetectOutcomesUnder(snapshots, now, alerts, F) :
             /\ Len(r.alerts) <= MaxAlerts
             /\ alerts' = r.alerts
             /\ last' = [NoLast EXCEPT !.op = "detect", !.created = r.ret,
                                       !.raised = F]
    /\ UNCHANGED <<now, snapshots, passVars>>

\* AnomalyDetector.detect_all while the storage fails some of the reads that
\* follow a commit
DetectAllRefreshFaulty ==
    /\ \E G \in SUBSET Committing(snapshots, now, alerts) :
          \E r \in DetectOutcomesUnderRefresh(snapshots, now, alerts, G) :
             /\ Len(r.alerts) <= MaxAlerts
             /\ alerts' = r.alerts
             /\ last' = [NoLast EXCEPT !.op = "detect", !.created = r.ret,
                                       !.unread = G]
    /\ UNCHANGED <<now, snapshots, passVars>>

\* one call of _store_snapshot at the current time with a sample drawn from M
StoreSnapshotCall(M) ==
    /\ \E k \in DOMAIN PROTOCOLS, m \in M :
          LET r == StoreSnapshot(snapshots, PROTOCOLS[k], now, m)
          IN  /\ snapshots' = r.snapshots
              /\ last' = [NoLast EXCEPT !.op = "store", !.id = k,
                                        !.query = <<m>>, !.stored = <<r.ok>>]
    /\ UNCHANGED <<now, alerts, passVars>>

\* POST /alerts/{alert_id}/resolve
ResolveAlert ==
    /\ \E id \in 1..(Len(alerts) + 1) :
          LET r == ResolveOutcome(alerts, now, id)
          IN  /\ alerts' = r.alerts
              /\ last' = [NoLast EXCEPT !.op = "resolve", !.id = id, !.code = r.code]
    /\ UNCHANGED <<now, snapshots, passVars>>

\* GET /protocols
GetProtocols ==
    /\ last' = [NoLast EXCEPT !.op = "status",
                              !.status = ProtocolStatuses(snapshots, alerts)]
    /\ UNCHANGED <<now, snapshots, alerts, passVars>>

\* SlackNotifier(webhook).send_alert(...) for a stored alert
SendAlert ==
    /\ \E id \in DOMAIN alerts, webhook \in {None, Some("hook")}, answer \in Answers :
          LET r == SendAlertOutcome(alerts, webhook, answer)
          IN  /\ alerts' = r.alerts
              /\ last' = [NoLast EXCEPT !.op = "notify", !.id = id,
                                        !.query = <<webhook, answer>>,
                                        !.sent = r.ret, !.error = r.error]
    /\ UNCHANGED <<now, snapshots, passVars>>

\* GET /alerts with a query drawn from Q
GetAlerts(Q) ==
    /\ \E q \in Q :
          \E o \in GetAlertsResults(alerts, q[1], q[2], q[3]) :
             last' = [NoLast EXCEPT !.op = "alerts", !.query = q, !.listed = o]
    /\ UNCHANGED <<now, snapshots, alerts, passVars>>

\* DataIngestor.ingest_all with the metrics fetched for felix drawn from Ff
\* and for hlp from Fh: both stores, the counts, then one detection pass
IngestAll(Ff, Fh) ==
    /\ \E ff \in FetchResults(Ff), fh \in FetchResults(Fh) :
          LET ts == now
              r1 == IngestOne(snapshots, PROTOCOLS[1], ts, ff)
              r2 == IngestOne(r1.snapshots, PROTOCOLS[2], ts, fh)
              oks == <<r1.ok, r2.ok>>
              successful == Cardinality({i \in DOMAIN PROTOCOLS : oks[i]})
          IN  /\ snapshots' = r2.snapshots
              /\ \E d \in DetectOutcomes(r2.snapshots, now, alerts) :
                    /\ Len(d.alerts) <= MaxAlerts
                    /\ alerts' = d.alerts
                    /\ last' = [NoLast EXCEPT !.op = "ingest",
                                   !.created = d.ret,
                                   !.fetched = <<ff # {}, fh # {}>>,
                                   !.conflict =
                                       <<ConflictSeen(snapshots, PROTOCOLS[1], ts, ff),
                                         ConflictSeen(snapshots, PROTOCOLS[2], ts, fh)>>,
                                   !.stored = oks,
                                   !.counts = <<successful,
                                                Len(PROTOCOLS) - successful>>]
    /\ UNCHANGED <<now, passVars>>

----------------------------------------------------------------------------
(* scripts/demo_alert.py: insert_normal_data, insert_crash_data, then        *)
(* run_detection.  The script's old timestamp is now - 24h05m; the model's   *)
(* timestamps are whole hours, and against whole-hour clocks and timestamps  *)
(* every comparison of that instant comes out as it does for now - 25h.      *)

DEMO_PAST_HOURS == 25

\* insert_normal_data: the stores it may leave.  With a felix row at or
\* before the old timestamp, .first() picks one and its tvl_usd is
\* overwritten; without one a row is inserted
InsertNormalData(S, t) ==
    LET past_time == t - DEMO_PAST_HOURS
        existing  == {s \in S : s.protocol_name = "felix" /\ s.timestamp <= past_time}
    IN  IF existing # {}
        THEN {(S \ {e}) \cup {[e EXCEPT !.tvl_usd = Some(100)]} : e \in existing}
        ELSE {S \cup {[protocol_name |-> "felix", timestamp |-> past_time,
                       tvl_usd |-> Some(100), apy_7d |-> Some(100),
                       utilization_rate |-> Some(80)]}}

\* insert_crash_data: a felix row at now, unless the commit conflicts
InsertCrashData(S, t) ==
    IF Conflicts(S, "felix", t) THEN S
    ELSE S \cup {[protocol_name |-> "felix", timestamp |-> t,
                  tvl_usd |-> Some(50), apy_7d |-> Some(100),
                  utilization_rate |-> Some(80)]}

\* the demo script from start to end
DemoAlert ==
    /\ \E S1 \in InsertNormalData(snapshots, now) :
          LET S2 == InsertCrashData(S1, now)
          IN  /\ snapshots' = S2
              /\ \E d \in DetectOutcomes(S2, now, alerts) :
                    /\ Len(d.alerts) <= MaxAlerts
                    /\ alerts' = d.alerts
                    /\ last' = [NoLast EXCEPT !.op = "demo", !.created = d.ret]
    /\ UNCHANGED <<now, passVars>>

----------------------------------------------------------------------------
(* A detection pass as a process: the queries and the commit of             *)
(* _create_alert are separate database round trips, so passes of different  *)
(* processes (two cron runs, a cron run and the demo script) interleave     *)
(* between them                                                             *)

\* detect_all entered: db opened, active protocols queried
PassStart(p) ==
    /\ pc[p] = "idle"
    /\ \E o \in Orders(ActiveProtocols(snapshots, now)) :
          todo' = [todo EXCEPT ![p] = Plan(o)]
    /\ pc' = [pc EXCEPT ![p] = "eval"]
    /\ pend' = [pend EXCEPT ![p] = {}]
    /\ created' = [created EXCEPT ![p] = << >>]
    /\ last' = [NoLast EXCEPT !.op = "pass"]
    /\ UNCHANGED <<now, snapshots, alerts, run, fetch>>

\* the step of PassEval with any alert of the pair, resolved ones too,
\* counting as existing
PassEvalAnyBlocks(p) ==
    /\ pc[p] = "eval"
    /\ todo[p] # << >>
    /\ LET cands == RuleCandidate(snapshots, now, Head(todo[p])[1], Head(todo[p])[2])
           fresh == {c \in cands :
                        \A i \in DOMAIN alerts :
                           ~(alerts[i].protocol_name = c.protocol_name
                             /\ alerts[i].alert_type = c.alert_type)}
       IN  IF fresh = {}
           THEN /\ todo' = [todo EXCEPT ![p] = Tail(todo[p])]
                /\ UNCHANGED <<pc, pend>>
           ELSE /\ pend' = [pend EXCEPT ![p] = fresh]
                /\ pc' = [pc EXCEPT ![p] = "insert"]
                /\ UNCHANGED todo
    /\ last' = [NoLast EXCEPT !.op = "pass"]
    /\ UNCHANGED <<now, snapshots, alerts, created, run, fetch>>

\* one rule evaluated, and for a candidate the query for an open alert
PassEval(p) ==
    /\ pc[p] = "eval"
    /\ todo[p] # << >>
    /\ LET cands == RuleCandidate(snapshots, now, Head(todo[p])[1], Head(todo[p])[2])
           fresh == {c \in cands :
                        ExistingOpen(alerts, c.protocol_name, c.alert_type) = {}}
       IN  IF fresh = {}
           THEN /\ todo' = [todo EXCEPT ![p] = Tail(todo[p])]
                /\ UNCHANGED <<pc, pend>>
           ELSE /\ pend' = [pend EXCEPT ![p] = fresh]
                /\ pc' = [pc EXCEPT ![p] = "insert"]
                /\ UNCHANGED todo
    /\ last' = [NoLast EXCEPT !.op = "pass"]
    /\ UNCHANGED <<now, snapshots, alerts, created, run, fetch>>

\* db.add(alert); db.commit(); the alert is returned to the rule
PassInsert(p) ==
    /\ pc[p] = "insert"
    /\ Len(alerts) < MaxAlerts
    /\ alerts' = InsertAlert(alerts, now, CHOOSE c \in pend[p] : TRUE)
    /\ created' = [created EXCEPT ![p] = Append(created[p], Len(alerts) + 1)]
    /\ pend' = [pend EXCEPT ![p] = {}]
    /\ todo' = [todo EXCEPT ![p] = Tail(todo[p])]
    /\ pc' = [pc EXCEPT ![p] = "eval"]
    /\ last' = [NoLast EXCEPT !.op = "pass"]
    /\ UNCHANGED <<now, snapshots, run, fetch>>

\* db.commit() raises: rollback, error logged, the rule returns None
PassInsertRaises(p) ==
    /\ pc[p] = "insert"
    /\ pend' = [pend EXCEPT ![p] = {}]
    /\ todo' = [todo EXCEPT ![p] = Tail(todo[p])]
    /\ pc' = [pc EXCEPT ![p] = "eval"]
    /\ last' = [NoLast EXCEPT !.op = "pass"]
    /\ UNCHANGED <<now, snapshots, alerts, created, run, fetch>>

\* detect_all returns the alerts it created
PassReturn(p) ==
    /\ pc[p] = "eval"
    /\ todo[p] = << >>
    /\ pc' = [pc EXCEPT ![p] = "idle"]
    /\ last' = [NoLast EXCEPT !.op = "pass", !.created = created[p]]
    /\ UNCHANGED <<now, snapshots, alerts, todo, pend, created, run, fetch>>

----------------------------------------------------------------------------
(* DeFiLlamaFetcher.fetch_tvl: one loop iteration per step.  A response is   *)
(* <<kind, value>>: "ok" is a 200 whose body parses to value, "malformed" a  *)
(* 200 whose body float() rejects, "5xx" a server error, "404", "other" any  *)
(* other status, "timeout" httpx.TimeoutException, "request_error" any other *)
(* httpx.RequestError.                                                       *)

Transient == {"5xx", "timeout"}

\* the loop iteration that retries after its last attempt too
AttemptOutcomeRetryAlways(f, resp) ==
    LET g == [f EXCEPT !.requests = @ + 1, !.responses = Append(@, resp)]
    IN  IF resp[1] = "ok"
        THEN [g EXCEPT !.pc = "returned", !.result = Some(resp[2])]
        ELSE IF resp[1] \in Transient
             THEN [g EXCEPT !.attempt = @ + 1,
                            !.slept = @ + API_RETRY_DELAY_SECONDS * (f.attempt + 1)]
             ELSE [g EXCEPT !.pc = "returned", !.result = None]

\* the loop iteration sleeping the base delay before every retry
AttemptOutcomeFlatDelay(f, resp) ==
    LET g == [f EXCEPT !.requests = @ + 1, !.responses = Append(@, resp)]
    IN  IF resp[1] = "ok"
        THEN [g EXCEPT !.pc = "returned", !.result = Some(resp[2])]
        ELSE IF resp[1] \in Transient
             THEN IF f.attempt < API_RETRY_ATTEMPTS - 1
                  THEN [g EXCEPT !.attempt = @ + 1,
                                 !.slept = @ + API_RETRY_DELAY_SECONDS]
                  ELSE [g EXCEPT !.attempt = @ + 1, !.pc = "returned",
                                 !.result = None]
             ELSE [g EXCEPT !.pc = "returned", !.result = None]

\* one iteration of `for attempt in range(self.max_retries)`: the request is
\* issued and its response handled
AttemptOutcome(f, resp) ==
    LET g == [f EXCEPT !.requests = @ + 1, !.responses = Append(@, resp)]
    IN  IF resp[1] = "ok"
        THEN [g EXCEPT !.pc = "returned", !.result = Some(resp[2])]
        ELSE IF resp[1] \in Transient
             THEN IF f.attempt < API_RETRY_ATTEMPTS - 1
                  THEN [g EXCEPT !.attempt = @ + 1,
                                 !.slept = @ + API_RETRY_DELAY_SECONDS * (f.attempt + 1)]
                  ELSE [g EXCEPT !.attempt = @ + 1, !.pc = "returned",
                                 !.result = None]
             ELSE [g EXCEPT !.pc = "returned", !.result = None]

\* fetch_tvl is called for the slug of protocol k
FetchCall(k) ==
    /\ fetch[k].pc # "request"
    /\ fetch' = [fetch EXCEPT ![k] = [NoFetch EXCEPT !.pc = "request"]]
    /\ last' = [NoLast EXCEPT !.op = "fetch"]
    /\ UNCHANGED <<now, snapshots, alerts, pc, todo, pend, created, run>>

\* the next request of the call for protocol k gets a response from R
FetchAttempt(k, R) ==
    /\ fetch[k].pc = "request"
    /\ \E resp \in R : fetch' = [fetch EXCEPT ![k] = AttemptOutcome(fetch[k], resp)]
    /\ last' = [NoLast EXCEPT !.op = "fetch"]
    /\ UNCHANGED <<now, snapshots, alerts, pc, todo, pend, created, run>>

----------------------------------------------------------------------------
(* FelixFetcher.fetch_metrics and HLPFetcher.fetch_metrics: the TVL comes    *)
(* from fetch_tvl, the other metrics are drawn at random from fixed ranges;  *)
(* the sets below hold the ends of each range in the units of the model      *)

\* _mock_tvl: 85M +- 10%
FelixMockTvl == {77, 93}

\* APY_RANGE = (6.0, 14.0)
FelixMockApy == {60, 140}

\* UTILIZATION_RANGE = (0.65, 0.92)
FelixMockUtilization == {65, 92}

\* _mock_tvl: 520M +- 8%
HlpMockTvl == {479, 561}

\* APY_RANGE = (12.0, 28.0)
HlpMockApy == {120, 280}

\* the metrics fetch_metrics of protocol p may return when fetch_tvl has
\* returned tvl: a TVL of None is replaced by a mock value
FetchMetrics(p, tvl) ==
    IF p = "felix"
    THEN {[tvl_usd |-> Some(v), apy_7d |-> Some(a), utilization_rate |-> Some(u)] :
             v \in (IF tvl = None THEN FelixMockTvl ELSE {tvl[1]}),
             a \in FelixMockApy, u \in FelixMockUtilization}
    ELSE {[tvl_usd |-> Some(v), apy_7d |-> Some(a), utilization_rate |-> None] :
             v \in (IF tvl = None THEN HlpMockTvl ELSE {tvl[1]}),
             a \in HlpMockApy}

----------------------------------------------------------------------------
(* An ingestion run as a process: ingest_all starts one task per protocol,   *)
(* asyncio.gather awaits them, and the tasks finish in any order.  A task    *)
(* yields to the event loop only while it awaits its fetch; from the fetch's *)
(* return to the end of _store_snapshot it runs without interruption.        *)

\* gather returning as soon as one task has finished
AnyTaskDone(tasks) == \E k \in DOMAIN tasks : tasks[k] = "done"

\* await asyncio.gather(*tasks, return_exceptions=True) has returned
AllTasksDone(tasks) == \A k \in DOMAIN tasks : tasks[k] = "done"

\* a failing task ending the tasks that are still waiting
AfterTaskFailFast(tasks, k, ok) ==
    IF ok THEN [tasks EXCEPT ![k] = "done"]
    ELSE [j \in DOMAIN tasks |-> "done"]

\* the tasks after task k has ended with result ok: the others go on
AfterTask(tasks, k, ok) == [tasks EXCEPT ![k] = "done"]

\* ingest_all entered: the timestamp is taken and the tasks are created
RunStart ==
    /\ run.phase \in {"idle", "returned"}
    /\ run' = [NoRun EXCEPT !.phase = "gather", !.timestamp = now,
                            !.tasks = [k \in DOMAIN PROTOCOLS |-> "pending"]]
    /\ last' = [NoLast EXCEPT !.op = "run"]
    /\ UNCHANGED <<now, snapshots, alerts, pc, todo, pend, created, fetch>>

\* _ingest_felix / _ingest_hlp of protocol k: its fetch returns metrics drawn
\* from F or raises, and the sample is stored
TaskFinish(k, F) ==
    /\ run.phase # "idle"
    /\ run.tasks[k] = "pending"
    /\ \E f \in FetchResults(F) :
          LET r == IngestOne(snapshots, PROTOCOLS[k], run.timestamp, f)
          IN  /\ snapshots' = r.snapshots
              /\ run' = [run EXCEPT !.tasks = AfterTask(run.tasks, k, r.ok),
                                    !.fetched[k] = f # {},
                                    !.outcomes[k] = r.ok,
                                    !.order = Append(@, k)]
    /\ last' = [NoLast EXCEPT !.op = "run"]
    /\ UNCHANGED <<now, alerts, pc, todo, pend, created, fetch>>

\* the task of protocol k starts: fetch_metrics calls fetch_tvl
TaskCall(k) ==
    /\ run.phase = "gather"
    /\ run.tasks[k] = "pending"
    /\ run' = [run EXCEPT !.tasks[k] = "fetching"]
    /\ fetch' = [fetch EXCEPT ![k] = [NoFetch EXCEPT !.pc = "request"]]
    /\ last' = [NoLast EXCEPT !.op = "run"]
    /\ UNCHANGED <<now, snapshots, alerts, pc, todo, pend, created>>

\* fetch_tvl has returned to the task of protocol k: fetch_metrics builds
\* the metrics and _store_snapshot stores them
TaskStore(k) ==
    /\ run.tasks[k] = "fetching"
    /\ fetch[k].pc = "returned"
    /\ \E m \in FetchMetrics(PROTOCOLS[k], fetch[k].result) :
          LET r == StoreSnapshot(snapshots, PROTOCOLS[k], run.timestamp, m)
          IN  /\ snapshots' = r.snapshots
              /\ run' = [run EXCEPT !.tasks = AfterTask(run.tasks, k, r.ok),
                                    !.fetched[k] = TRUE,
                                    !.outcomes[k] = r.ok,
                                    !.order = Append(@, k)]
    /\ last' = [NoLast EXCEPT !.op = "run"]
    /\ UNCHANGED <<now, alerts, pc, todo, pend, created, fetch>>

\* ingest_all is past its await of gather
GatherReturned(r) == r.phase = "gather" /\ AllTasksDone(r.tasks)

\* gather has returned: the outcomes are counted, _run_anomaly_detection
\* calls detect_all, and ingest_all returns the counts
RunDetect ==
    /\ GatherReturned(run)
    /\ \E d \in DetectOutcomes(snapshots, now, alerts) :
          LET counts == CountOutcomes(run.outcomes)
          IN  /\ Len(d.alerts) <= MaxAlerts
              /\ alerts' = d.alerts
              /\ last' = [NoLast EXCEPT !.op = "run", !.created = d.ret,
                                        !.fetched = run.fetched,
                                        !.stored = run.outcomes,
                                        !.counts = counts,
                                        !.exit = ExitStatus(counts)]
    /\ run' = [run EXCEPT !.phase = "returned", !.detections = @ + 1]
    /\ UNCHANGED <<now, snapshots, pc, todo, pend, created, fetch>>

\* gather has returned and detect_all raises in the middle of its pass
RunDetectRaising ==
    /\ GatherReturned(run)
    /\ \E d \in DetectOutcomesRaising(snapshots, now, alerts) :
          LET r == IngestAllReturn(run.outcomes, TRUE)
          IN  /\ Len(d.alerts) <= MaxAlerts
              /\ alerts' = d.alerts
              /\ last' = [NoLast EXCEPT !.op = "run", !.created = d.ret,
                                        !.fetched = run.fetched,
                                        !.stored = run.outcomes,
                                        !.counts = r.counts,
                                        !.error = r.error,
                                        !.aborted = TRUE]
    /\ run' = [run EXCEPT !.phase = "returned", !.detections = @ + 1]
    /\ UNCHANGED <<now, snapshots, pc, todo, pend, created, fetch>>

----------------------------------------------------------------------------
(* Inputs *)

\* the metrics a fetcher hands to _store_snapshot
Healthy == [tvl_usd |-> Some(100), apy_7d |-> Some(25), utilization_rate |-> None]

Stressed == [tvl_usd |-> Some(50), apy_7d |-> Some(15), utilization_rate |-> Some(99)]

Degraded == [tvl_usd |-> None, apy_7d |-> Some(10), utilization_rate |-> Some(96)]

Metrics == {Healthy, Stressed, Degraded}

\* half the TVL and a low APY, no utilization reported
Crashed == [tvl_usd |-> Some(50), apy_7d |-> Some(15), utilization_rate |-> None]

\* samples that differ in TVL only
TvlMetrics ==
    {[Healthy EXCEPT !.tvl_usd = Some(v)] : v \in {0, 50, 80, 85, 100}}

\* felix samples that differ in APY and utilization: a null APY, an APY of 0
\* (stored as NULL), a negative APY, APYs below and above the threshold,
\* utilizations at and above the threshold
RateMetrics ==
    {[Healthy EXCEPT !.apy_7d = r[1], !.utilization_rate = r[2]] :
        r \in {<<Some(25), None>>, <<Some(15), Some(99)>>, <<None, None>>,
               <<Some(0), Some(95)>>, <<Some(0 - 5), Some(96)>>}}

\* queries of the alert list: each status, alone, with a protocol, with a
\* severity and with both
Queries ==
    {<<"open", None, None>>, <<"resolved", Some("felix"), None>>,
     <<"all", None, Some("warning")>>,
     <<"resolved", Some("felix"), Some("warning")>>}

\* samples with each of TVL, APY and utilization absent, 0 or positive
PartialMetrics ==
    {[tvl_usd |-> v, apy_7d |-> a, utilization_rate |-> u] :
        v \in {None, Some(0), Some(100)}, a \in {None, Some(0), Some(25)},
        u \in {None, Some(0), Some(80)}}

\* what the TVL endpoint may answer
Responses ==
    {<<"ok", 100>>, <<"malformed", 0>>, <<"5xx", 0>>, <<"404", 0>>,
     <<"other", 0>>, <<"timeout", 0>>, <<"request_error", 0>>}

\* a sample of a vault that reports a utilization
HlpHot == [tvl_usd |-> Some(100), apy_7d |-> Some(25), utilization_rate |-> Some(99)]

----------------------------------------------------------------------------
(* Specifications *)

\* every operation runs to completion, one at a time
Next ==
    \/ Tick({24})
    \/ IngestAll(Metrics, {Stressed})
    \/ DetectAll
    \/ ResolveAlert

Spec == Init /\ [][Next]_vars

\* detection passes of two processes overlap
NextOverlap ==
    \/ IngestAll({Stressed}, {Stressed})
    \/ ResolveAlert
    \/ \E p \in Procs : PassStart(p)
    \/ \E p \in Procs : PassEval(p)
    \/ \E p \in Procs : PassInsert(p)
    \/ \E p \in Procs : PassReturn(p)

SpecOverlap == Init /\ [][NextOverlap]_vars

\* histories of felix samples that differ in TVL, at 12 hour steps, with hlp
\* unreachable; passes over them and resolutions
NextTvl ==
    \/ Tick({12, 24})
    \/ IngestAll(TvlMetrics, {})
    \/ DetectAll
    \/ ResolveAlert

SpecTvl == Init /\ [][NextTvl]_vars

\* histories of felix samples that differ in APY and utilization, next to a
\* non-lending protocol that reports a utilization of 0.99
NextRates ==
    \/ Tick({24})
    \/ IngestAll(RateMetrics, {HlpHot})
    \/ DetectAll
    \/ ResolveAlert

SpecRates == Init /\ [][NextRates]_vars

\* a protocol stops reporting: its last sample is exactly 48 hours old, or
\* 49, when the next run and the next pass come
NextWindow ==
    \/ TickUntil({48, 49}, MaxIdle)
    \/ IngestAll({Stressed}, {Stressed})
    \/ DetectAll
    \/ ResolveAlert

SpecWindow == Init /\ [][NextWindow]_vars

\* the reporting surface is queried between ingestion runs and resolutions
NextStatus ==
    \/ Tick({24})
    \/ IngestAll({Healthy, Crashed}, {Stressed})
    \/ ResolveAlert
    \/ GetProtocols

SpecStatus == Init /\ [][NextStatus]_vars

\* passes during which the storage fails some commits
NextFault ==
    \/ IngestAll({Crashed, Stressed}, {Stressed})
    \/ DetectAllFaulty
    \/ ResolveAlert

SpecFault == Init /\ [][NextFault]_vars

\* passes during which the storage fails some reads that follow a commit
NextRefresh ==
    \/ IngestAll({Crashed, Stressed}, {Stressed})
    \/ DetectAllRefreshFaulty
    \/ ResolveAlert

SpecRefresh == Init /\ [][NextRefresh]_vars

\* ingestion runs step by step, the clock moving between the steps
NextRun ==
    \/ Tick({24})
    \/ RunStart
    \/ TaskFinish(1, {Stressed, Degraded})
    \/ TaskFinish(2, {Stressed})
    \/ RunDetect

SpecRun == Init /\ [][NextRun]_vars

\* ingestion runs whose detection pass may raise
NextRunFault ==
    \/ Tick({24})
    \/ RunStart
    \/ TaskFinish(1, {Stressed, Degraded})
    \/ TaskFinish(2, {Stressed})
    \/ RunDetect
    \/ RunDetectRaising

SpecRunFault == Init /\ [][NextRunFault]_vars

\* calls of fetch_tvl for the two slugs, every response possible at every
\* request
NextFetchTvl ==
    \/ \E k \in DOMAIN PROTOCOLS : FetchCall(k)
    \/ \E k \in DOMAIN PROTOCOLS : FetchAttempt(k, Responses)

SpecFetchTvl == Init /\ [][NextFetchTvl]_vars

\* ingestion runs whose fetchers meet a TVL endpoint that answers, fails
\* with a server error or times out
NextFetch ==
    \/ RunStart
    \/ \E k \in DOMAIN PROTOCOLS : TaskCall(k)
    \/ \E k \in DOMAIN PROTOCOLS :
          FetchAttempt(k, {<<"ok", 100>>, <<"5xx", 0>>, <<"timeout", 0>>})
    \/ \E k \in DOMAIN PROTOCOLS : TaskStore(k)
    \/ RunDetect

SpecFetch == Init /\ [][NextFetch]_vars

\* the demo script is run on a store that ingestion runs fill
NextDemo ==
    \/ TickUntil({25}, MaxIdle)
    \/ IngestAll({Stressed}, {})
    \/ DemoAlert
    \/ DetectAll
    \/ ResolveAlert

SpecDemo == Init /\ [][NextDemo]_vars

\* the alert list is queried between ingestion runs and resolutions
NextQuery ==
    \/ Tick({24})
    \/ IngestAll({Healthy, Crashed}, {Stressed})
    \/ ResolveAlert
    \/ GetAlerts(Queries)

SpecQuery == Init /\ [][NextQuery]_vars

\* notifications are sent for stored alerts between runs and resolutions
NextNotify ==
    \/ Tick({24})
    \/ IngestAll({Crashed}, {Stressed})
    \/ ResolveAlert
    \/ SendAlert

SpecNotify == Init /\ [][NextNotify]_vars

\* calls of _store_snapshot with partial samples, one after the other
NextStore == StoreSnapshotCall(PartialMetrics)

SpecStore == Init /\ [][NextStore]_vars

\* samples are stored, passes run step by step with commits that may raise,
\* and alerts are resolved between the steps
NextLive ==
    \/ StoreSnapshotCall({Healthy, Crashed})
    \/ PassStart(1)
    \/ PassEval(1)
    \/ PassInsert(1)
    \/ PassInsertRaises(1)
    \/ PassReturn(1)
    \/ ResolveAlert

\* passes keep being invoked and run to their end, and a commit that is
\* attempted again and again does not raise every time
SpecLive ==
    /\ Init /\ [][NextLive]_vars
    /\ WF_vars(PassStart(1)) /\ WF_vars(PassEval(1)) /\ WF_vars(PassReturn(1))
    /\ SF_vars(PassInsert(1))

----------------------------------------------------------------------------
(* Properties *)

Pair(a) == <<a.protocol_name, a.alert_type>>

IsPass(l) == l.op \in {"detect", "ingest"}

\* the ids a step added to the alert table
Added == {j \in DOMAIN alerts' : j \notin DOMAIN alerts}

\* C1: whatever detection passes, resolutions and ingestion runs have run to
\* completion one after the other, no (protocol, kind) pair has two open
\* alerts
C1_AtMostOneOpenPerPair ==
    \A i, j \in DOMAIN alerts :
        (i # j /\ IsOpen(alerts[i]) /\ IsOpen(alerts[j]))
            => Pair(alerts[i]) # Pair(alerts[j])

\* a pair was alerted, resolved and alerted again, and a pass has since
\* found the second alert open
C1_Witness ==
    /\ IsPass(last)
    /\ last.created = << >>
    /\ \E i, j \in DOMAIN alerts :
          /\ i < j
          /\ Pair(alerts[i]) = Pair(alerts[j])
          /\ ~IsOpen(alerts[i])
          /\ IsOpen(alerts[j])
          /\ RuleCandidate(snapshots, now, alerts[j].protocol_name,
                           IF alerts[j].alert_type = "apy_low" THEN "apy"
                           ELSE IF alerts[j].alert_type = "tvl_drop" THEN "tvl"
                           ELSE "util") # {}

\* C2: two overlapping detection passes never both commit an open alert of
\* the same (protocol, kind)
C2_NoDoubleCommit ==
    \A p, q \in Procs :
        p # q =>
            \A i \in DOMAIN created[p], j \in DOMAIN created[q] :
                LET a == alerts[created[p][i]]
                    b == alerts[created[q][j]]
                IN  ~(IsOpen(a) /\ IsOpen(b) /\ Pair(a) = Pair(b))

RuleOfKind(kind) ==
    CASE kind = "tvl_drop" -> "tvl"
      [] kind = "apy_low" -> "apy"
      [] kind = "utilization_high" -> "util"

\* the alert a's rule fires on the samples S at time t
Fires(S, t, a) == RuleCandidate(S, t, a.protocol_name, RuleOfKind(a.alert_type)) # {}

\* C3: a detect_all that follows a detection pass at once (same samples, same
\* clock, no resolution in between) returns the empty list and leaves the
\* alert store as it was
C3_SecondPassCreatesNothing ==
    [][(IsPass(last) /\ last'.op = "detect")
          => (last'.created = << >> /\ alerts' = alerts)]_vars

\* the second of two passes has run, and the first had created an alert whose
\* rule still fires
C3_Witness ==
    /\ last.op = "detect"
    /\ last.second
    /\ last.created = << >>
    /\ \E i \in DOMAIN alerts :
          /\ IsOpen(alerts[i])
          /\ alerts[i].triggered_at = now
          /\ Fires(snapshots, now, alerts[i])

\* C4: a resolved alert stays resolved with the same resolved_at through
\* every later operation, and a further resolve call on it is rejected
C4_ResolutionIrreversible ==
    [][/\ \A i \in DOMAIN alerts :
             alerts[i].resolved_at # None
                => /\ i \in DOMAIN alerts'
                   /\ alerts'[i].resolved_at = alerts[i].resolved_at
       /\ (/\ last'.op = "resolve"
           /\ last'.id \in DOMAIN alerts
           /\ alerts[last'.id].resolved_at # None)
             => last'.code # 200]_vars

\* an alert resolved at hour 0 was the target of a resolve call at a later
\* hour, which was rejected
C4_Witness ==
    /\ last.op = "resolve"
    /\ last.code = 400
    /\ now > 0
    /\ alerts[last.id].resolved_at = Some(0)

\* C5: resolve on an unknown id answers not-found (404), on a resolved alert
\* answers a different rejection (400), and neither changes the alert store
C5_RejectionsDistinct ==
    [][last'.op = "resolve"
          => /\ last'.id \notin DOMAIN alerts
                  => (last'.code = 404 /\ alerts' = alerts)
             /\ (last'.id \in DOMAIN alerts /\ alerts[last'.id].resolved_at # None)
                  => (last'.code \notin {200, 404} /\ alerts' = alerts)
             /\ (last'.id \in DOMAIN alerts /\ alerts[last'.id].resolved_at = None)
                  => last'.code = 200]_vars

\* a resolve call on a resolved alert was rejected while other alerts of the
\* store are open
C5_Witness ==
    /\ last.op = "resolve"
    /\ last.code = 400
    /\ last.id \in DOMAIN alerts
    /\ alerts[last.id].resolved_at # None
    /\ \E i \in DOMAIN alerts : IsOpen(alerts[i])

\* C6: a successful resolve changes nothing but resolved_at of its target
\* (no other field, no other alert, no sample), and no other operation
\* changes any field of an alert that exists
C6_OnlyResolvedAtChanges ==
    [][/\ (last'.op = "resolve" /\ last'.code = 200)
             => /\ DOMAIN alerts' = DOMAIN alerts
                /\ \A i \in DOMAIN alerts :
                      IF i = last'.id
                      THEN alerts'[i] =
                             [alerts[i] EXCEPT !.resolved_at = alerts'[i].resolved_at]
                      ELSE alerts'[i] = alerts[i]
                /\ snapshots' = snapshots
       /\ last'.op # "resolve"
             => \A i \in DOMAIN alerts :
                   i \in DOMAIN alerts' /\ alerts'[i] = alerts[i]]_vars

\* an alert triggered at hour 0 was resolved at a later hour, next to another
\* alert and with samples in the store
C6_Witness ==
    /\ last.op = "resolve"
    /\ last.code = 200
    /\ alerts[last.id].triggered_at = 0
    /\ alerts[last.id].resolved_at = Some(now)
    /\ now > 0
    /\ Len(alerts) >= 2
    /\ snapshots # {}

\* C7: a pass whose rule fires for a pair that has an open alert adds no
\* alert of that pair, returns none for it, and leaves the open alert as it
\* is
C7_DuplicateDiscarded ==
    [][IsPass(last')
          => \A i \in DOMAIN alerts :
                (IsOpen(alerts[i]) /\ Fires(snapshots', now, alerts[i]))
                   => /\ alerts'[i] = alerts[i]
                      /\ \A j \in Added : Pair(alerts'[j]) # Pair(alerts[i])
                      /\ \A k \in DOMAIN last'.created :
                            Pair(alerts'[last'.created[k]]) # Pair(alerts[i])]_vars

\* a pass has discarded a candidate whose message differs from the message
\* of the open alert of its pair
C7_Witness ==
    /\ IsPass(last)
    /\ \E i \in DOMAIN alerts :
          /\ IsOpen(alerts[i])
          /\ alerts[i].triggered_at < now
          /\ \A k \in DOMAIN last.created : last.created[k] # i
          /\ \E c \in RuleCandidate(snapshots, now, alerts[i].protocol_name,
                                    RuleOfKind(alerts[i].alert_type)) :
                c.message # alerts[i].message

RowsAt(S, p, ts) == {s \in S : s.protocol_name = p /\ s.timestamp = ts}

\* C8: _store_snapshot on a (protocol, timestamp) pair that has a row leaves
\* that one row with its first values and returns True
C8_DuplicateStoreIsNoOp ==
    [][last'.op = "ingest"
          => \A k \in DOMAIN PROTOCOLS :
                (last'.fetched[k] /\ RowsAt(snapshots, PROTOCOLS[k], now) # {})
                   => /\ RowsAt(snapshots', PROTOCOLS[k], now)
                           = RowsAt(snapshots, PROTOCOLS[k], now)
                      /\ Cardinality(RowsAt(snapshots', PROTOCOLS[k], now)) = 1
                      /\ last'.stored[k] = TRUE]_vars

\* a store with other values than the row of its pair holds has returned True
C8_Witness ==
    /\ last.op = "ingest"
    /\ \E k \in DOMAIN PROTOCOLS :
          /\ last.fetched[k]
          /\ last.conflict[k] = "other"
          /\ last.stored[k] = TRUE
          /\ Cardinality(RowsAt(snapshots, PROTOCOLS[k], now)) = 1

\* the samples of S that carry a TVL
WithTvl(S) == {s \in S : s.tvl_usd # None}

\* (old - latest) / old > 0.20, in exact arithmetic
DropExceeds(old_tvl, latest_tvl) == 5 * (old_tvl - latest_tvl) > old_tvl

\* C9: after a pass, every active protocol whose most recent sample with a
\* TVL has dropped by more than the threshold against its most recent sample
\* with a TVL at or before now - lookback_hours has an open tvl_drop alert
C9_TvlDropSelection ==
    IsPass(last) =>
        \A p \in ActiveProtocols(snapshots, now) :
            \A l \in LatestSnapshot(WithTvl(snapshots), p) :
                \A o \in LatestSnapshotAtOrBefore(WithTvl(snapshots), p,
                                                   now - TVL_LOOKBACK_HOURS) :
                    (o.tvl_usd[1] # 0 /\ DropExceeds(o.tvl_usd[1], l.tvl_usd[1]))
                        => ExistingOpen(alerts, p, "tvl_drop") # {}

NewOf(p, kind) == {j \in Added : Pair(alerts'[j]) = <<p, kind>>}

\* the TVL-drop rule of p lacks data: no sample at or before the lookback
\* cutoff, no sample with a TVL, or an old TVL of 0
Insufficient(S, t, p) ==
    \/ LatestSnapshotAtOrBefore(S, p, t - TVL_LOOKBACK_HOURS) = {}
    \/ WithTvl(SnapshotsOf(S, p)) = {}
    \/ \E o \in LatestSnapshotAtOrBefore(S, p, t - TVL_LOOKBACK_HOURS) :
          o.tvl_usd = Some(0)

\* the (protocol, rule) pairs a pass over the active protocols P has to
\* evaluate
DueRules(P) ==
    {<<q, "tvl">> : q \in P} \cup {<<q, "apy">> : q \in P}
        \cup {<<q, "util">> : q \in P \cap LENDING_PROTOCOLS}

\* C11: a pass over a protocol whose TVL-drop rule lacks data (no sample at or
\* before now - lookback_hours, no sample with a TVL, or old TVL 0) adds no
\* tvl_drop alert for it, and every other rule of that protocol and every
\* rule of the other protocols that fires with no open alert of its pair
\* still gets its alert created and returned
C11_InsufficientTvlData ==
    [][IsPass(last')
          => \A p \in ActiveProtocols(snapshots', now) :
                Insufficient(snapshots', now, p)
                   => /\ NewOf(p, "tvl_drop") = {}
                      /\ \A d \in DueRules(ActiveProtocols(snapshots', now))
                                     \ {<<p, "tvl">>} :
                            \A c \in RuleCandidate(snapshots', now, d[1], d[2]) :
                               ExistingOpen(alerts, d[1], c.alert_type) = {}
                                  => \E j \in NewOf(d[1], c.alert_type) :
                                        \E k \in DOMAIN last'.created :
                                           last'.created[k] = j]_vars

\* a pass has skipped the TVL-drop rule of a protocol without an old sample
\* and has created an apy_low alert for it and an alert for another protocol
C11_Witness ==
    /\ IsPass(last)
    /\ \E p \in ActiveProtocols(snapshots, now) :
          /\ LatestSnapshotAtOrBefore(snapshots, p, now - TVL_LOOKBACK_HOURS) = {}
          /\ ExistingOpen(alerts, p, "tvl_drop") = {}
          /\ \E k, m \in DOMAIN last.created :
                /\ Pair(alerts[last.created[k]]) = <<p, "apy_low">>
                /\ alerts[last.created[m]].protocol_name # p

\* the samples of S that carry an APY
WithApy(S) == {s \in S : s.apy_7d # None}

\* C12: for every protocol a pass evaluates, with latest its most recent
\* sample that carries an APY and with no open apy_low alert, the pass
\* creates an apy_low alert exactly when that APY is strictly below the
\* threshold, and the alert is a warning
C12_ApyLowSelection ==
    [][IsPass(last')
          => \A p \in ActiveProtocols(snapshots', now) :
                \A l \in LatestSnapshot(WithApy(snapshots'), p) :
                    ExistingOpen(alerts, p, "apy_low") = {}
                       => /\ NewOf(p, "apy_low") # {}
                               <=> l.apy_7d[1] < APY_MIN_THRESHOLD
                          /\ \A j \in NewOf(p, "apy_low") :
                                alerts'[j].severity = "warning"]_vars

\* the samples of S that carry a utilization
WithUtilization(S) == {s \in S : s.utilization_rate # None}

\* C13: a pass adds utilization_high alerts for lending protocols only, and
\* for a lending protocol it evaluates, with latest its most recent sample
\* that carries a utilization and with no open utilization_high alert, it
\* creates one exactly when that utilization is strictly above the
\* threshold, and the alert is a warning
C13_UtilizationHighSelection ==
    [][IsPass(last')
          => /\ \A j \in Added :
                   alerts'[j].alert_type = "utilization_high"
                      => alerts'[j].protocol_name \in LENDING_PROTOCOLS
             /\ \A p \in ActiveProtocols(snapshots', now) \cap LENDING_PROTOCOLS :
                   \A l \in LatestSnapshot(WithUtilization(snapshots'), p) :
                       ExistingOpen(alerts, p, "utilization_high") = {}
                          => /\ NewOf(p, "utilization_high") # {}
                                  <=> l.utilization_rate[1] > UTILIZATION_MAX_THRESHOLD
                             /\ \A j \in NewOf(p, "utilization_high") :
                                   alerts'[j].severity = "warning"]_vars

AllProtocols == {PROTOCOLS[k] : k \in DOMAIN PROTOCOLS}

\* p has a sample of the trailing 48 hours
HasRecentSample(S, t, p) ==
    \E s \in S : s.protocol_name = p /\ s.timestamp >= t - 48

\* C14: a pass evaluates a protocol (creates the alert of each of its rules
\* that fires with no open alert of its pair) if it has a sample of the
\* trailing 48 hours; for a protocol without one it adds no alert and leaves
\* every alert of that protocol as it is
C14_ActiveWindow ==
    [][IsPass(last')
          => \A p \in AllProtocols :
                IF HasRecentSample(snapshots', now, p)
                THEN \A d \in DueRules({p}) :
                        \A c \in RuleCandidate(snapshots', now, d[1], d[2]) :
                           ExistingOpen(alerts, p, c.alert_type) = {}
                              => NewOf(p, c.alert_type) # {}
                ELSE /\ \A j \in Added : alerts'[j].protocol_name # p
                     /\ \A i \in DOMAIN alerts :
                           alerts[i].protocol_name = p => alerts'[i] = alerts[i]]_vars

\* a pass has created an alert for one protocol and none for another whose
\* last sample is more than 48 hours old, although a rule fires on that
\* sample with no open alert of its pair, and an older alert of that
\* protocol is still open
C14_Witness ==
    /\ IsPass(last)
    /\ last.created # << >>
    /\ \E p \in AllProtocols :
          /\ SnapshotsOf(snapshots, p) # {}
          /\ ~HasRecentSample(snapshots, now, p)
          /\ \E d \in DueRules({p}) :
                \E c \in RuleCandidate(snapshots, now, d[1], d[2]) :
                   ExistingOpen(alerts, p, c.alert_type) = {}
          /\ \E i \in DOMAIN alerts :
                alerts[i].protocol_name = p /\ IsOpen(alerts[i])
          /\ \A k \in DOMAIN last.created :
                alerts[last.created[k]].protocol_name # p

\* the severities of the open alerts of protocol p
OpenSeverities(A, p) ==
    {A[i].severity : i \in {j \in DOMAIN A : A[j].protocol_name = p /\ IsOpen(A[j])}}

\* the label the open severities call for
LabelOf(sevs) ==
    IF "critical" \in sevs THEN "critical"
    ELSE IF "warning" \in sevs THEN "warning"
    ELSE "healthy"

\* C15: every status query answers, for each protocol, the label that the
\* severities of the protocol's open alerts at that moment call for (critical
\* before warning before healthy), whatever resolved alerts, alerts of other
\* protocols and earlier answers there are
C15_StatusFromOpenAlerts ==
    [][last'.op = "status"
          => /\ \A p \in {s.protocol_name : s \in snapshots'} :
                   \E e \in last'.status : e[1] = p
             /\ \A e \in last'.status :
                   e[2] = LabelOf(OpenSeverities(alerts', e[1]))]_vars

\* a query has answered warning for a protocol whose critical alert is
\* resolved in this hour and whose warning alert is open, while
\* another protocol has an open alert
C15_Witness ==
    /\ last.op = "status"
    /\ \E p \in AllProtocols :
          /\ <<p, "warning">> \in last.status
          /\ \E i, j \in DOMAIN alerts :
                /\ alerts[i].protocol_name = p
                /\ alerts[i].severity = "critical"
                /\ alerts[i].resolved_at = Some(now)
                /\ alerts[j].protocol_name = p
                /\ alerts[j].severity = "warning"
                /\ IsOpen(alerts[j])
          /\ \E k \in DOMAIN alerts :
                alerts[k].protocol_name # p /\ IsOpen(alerts[k])

C17_DetectOnceAfterStores ==
    [][/\ run'.detections > run.detections
             => /\ run.detections = 0
                /\ run'.detections = 1
                /\ \A k \in DOMAIN PROTOCOLS : run.tasks[k] = "done"
                /\ snapshots' = snapshots
       /\ snapshots' # snapshots
             => run.detections = 0 /\ run'.detections = 0
       /\ run'.phase = "returned" => run'.detections = 1
       /\ run'.phase = "gather" => run'.detections = 0]_vars

\* a run whose first task failed in its fetch and whose second task stored a
\* sample has returned: its one detection found that sample and created an
\* alert from it
C17_Witness ==
    /\ run.phase = "returned"
    /\ run.detections = 1
    /\ Len(run.order) = 2
    /\ ~run.fetched[run.order[1]]
    /\ RowsAt(snapshots, PROTOCOLS[run.order[2]], run.timestamp) # {}
    /\ last.created # << >>
    /\ \A k \in DOMAIN last.created :
          alerts[last.created[k]].protocol_name = PROTOCOLS[run.order[2]]

\* the tasks of the run that have ended
Ended(r) == {r.order[i] : i \in DOMAIN r.order}

\* C18: whatever the outcome of the tasks that have ended and whichever
\* ended first, a task that is waiting can still fetch and store, and once
\* all have ended gather has returned and the detection pass can run (it
\* has an outcome within the alert table); in a run that has returned the
\* pass has run, the task of every protocol has run to its end, and every
\* protocol whose fetch returned metrics has its sample of the run's
\* timestamp in the store
C18_FailureIsolated ==
    /\ run.phase = "gather"
          => /\ \A k \in DOMAIN PROTOCOLS :
                   run.tasks[k] = "pending" => ENABLED TaskFinish(k, {Stressed})
             /\ Ended(run) = DOMAIN PROTOCOLS
                   => /\ GatherReturned(run)
                      /\ \E d \in DetectOutcomes(snapshots, now, alerts) :
                            Len(d.alerts) <= MaxAlerts
    /\ run.phase = "returned"
          => /\ run.detections = 1
             /\ \A k \in DOMAIN PROTOCOLS :
                   /\ k \in Ended(run)
                   /\ run.fetched[k]
                         => RowsAt(snapshots, PROTOCOLS[k], run.timestamp) # {}

\* a run has returned whose first task to end stored its sample and returned
\* False and whose other task then stored its sample and returned True
C18_Witness ==
    /\ run.phase = "returned"
    /\ Len(run.order) = 2
    /\ run.fetched[run.order[1]]
    /\ ~run.outcomes[run.order[1]]
    /\ run.outcomes[run.order[2]]
    /\ RowsAt(snapshots, PROTOCOLS[run.order[2]], run.timestamp) # {}
    /\ last.counts = <<1, 1>>

\* C20: a call of fetch_tvl never issues more than API_RETRY_ATTEMPTS
\* requests, whatever the responses: while it runs it has issued fewer, every
\* step of it issues one more request (so it returns after at most
\* API_RETRY_ATTEMPTS steps), and a call that met transient failures only
\* returns None after exactly API_RETRY_ATTEMPTS requests
C20_BoundedRetries ==
    /\ [](\A k \in DOMAIN fetch :
            /\ fetch[k].requests <= API_RETRY_ATTEMPTS
            /\ Len(fetch[k].responses) = fetch[k].requests
            /\ fetch[k].pc = "request" => fetch[k].requests < API_RETRY_ATTEMPTS
            /\ (/\ fetch[k].pc = "returned"
                /\ \A i \in DOMAIN fetch[k].responses :
                      fetch[k].responses[i][1] \in {"5xx", "timeout"})
                  => /\ fetch[k].result = None
                     /\ fetch[k].requests = API_RETRY_ATTEMPTS)
    /\ [][\A k \in DOMAIN fetch :
             (fetch[k].pc = "request" /\ fetch'[k] # fetch[k])
                => /\ fetch'[k].requests = fetch[k].requests + 1
                   /\ fetch'[k].pc \in {"request", "returned"}]_vars

\* a call has returned None after a timeout, a 5xx and a timeout, having
\* slept 1 and 2 delays between them
C20_Witness ==
    \E k \in DOMAIN fetch :
        /\ fetch[k].pc = "returned"
        /\ fetch[k].responses = << <<"timeout", 0>>, <<"5xx", 0>>, <<"timeout", 0>> >>
        /\ fetch[k].result = None
        /\ fetch[k].requests = 3
        /\ fetch[k].slept = 3

\* C19: when the TVL fetch of a protocol's task has met a transient failure
\* at every one of its API_RETRY_ATTEMPTS requests, the task ends without
\* storing a sample of the run's timestamp for the protocol and reports
\* failure to ingest_all
C19_TransientFailureSkips ==
    [][\A k \in DOMAIN PROTOCOLS :
          (/\ run.tasks[k] = "fetching"
           /\ run'.tasks[k] = "done"
           /\ fetch[k].requests = API_RETRY_ATTEMPTS
           /\ \A i \in DOMAIN fetch[k].responses :
                 fetch[k].responses[i][1] \in {"5xx", "timeout"})
             => /\ RowsAt(snapshots', PROTOCOLS[k], run.timestamp)
                     = RowsAt(snapshots, PROTOCOLS[k], run.timestamp)
                /\ run'.outcomes[k] = FALSE]_vars

\* the response to the request a step of the call for k has issued
Answer(k) == fetch'[k].responses[Len(fetch'[k].responses)]

\* C21: a step of fetch_tvl that meets a 5xx or a timeout at its request
\* number n waits retry_delay * n and goes on to request n + 1 when n is below
\* API_RETRY_ATTEMPTS, and at the last request returns None without waiting;
\* a step that meets a 404, another status, a request error or a malformed
\* body returns None at once without waiting; a call that has returned
\* issues no request
C21_RetryOnlyTransient ==
    [][\A k \in DOMAIN fetch :
          /\ (fetch[k].pc = "request" /\ fetch'[k] # fetch[k])
                => LET n == fetch'[k].requests
                   IN  IF Answer(k)[1] \in {"5xx", "timeout"}
                       THEN IF n < API_RETRY_ATTEMPTS
                            THEN /\ fetch'[k].pc = "request"
                                 /\ fetch'[k].slept
                                       = fetch[k].slept + API_RETRY_DELAY_SECONDS * n
                            ELSE /\ fetch'[k].pc = "returned"
                                 /\ fetch'[k].result = None
                                 /\ fetch'[k].slept = fetch[k].slept
                       ELSE /\ fetch'[k].pc = "returned"
                            /\ fetch'[k].slept = fetch[k].slept
                            /\ Answer(k)[1] # "ok" => fetch'[k].result = None
          /\ (fetch[k].pc = "returned" /\ fetch'[k].pc = "returned")
                => fetch'[k] = fetch[k]]_vars

\* a call has waited one delay after a 5xx, two after a timeout, and has
\* returned None at the 404 that answered its third request
C21_Witness ==
    \E k \in DOMAIN fetch :
        /\ fetch[k].pc = "returned"
        /\ fetch[k].responses = << <<"5xx", 0>>, <<"timeout", 0>>, <<"404", 0>> >>
        /\ fetch[k].result = None
        /\ fetch[k].slept = 3

\* C22: every sample row of the store is in the store, with all its fields
\* as they were, after every operation
C22_SamplesAppendOnly ==
    [][\A s \in snapshots : s \in snapshots']_vars

\* the alerts a query has to list
Wanted(A, q) ==
    {i \in DOMAIN A :
        /\ q[1] = "open" => IsOpen(A[i])
        /\ q[1] = "resolved" => ~IsOpen(A[i])
        /\ q[2] # None => A[i].protocol_name = q[2][1]
        /\ q[3] # None => A[i].severity = q[3][1]}

C24_NotificationLeavesStore ==
    [][last'.op = "notify"
          => /\ ~last'.error
             /\ last'.sent \in {Some(TRUE), Some(FALSE)}
             /\ alerts' = alerts]_vars

\* a notification for an open alert has failed on a timeout with a webhook
\* configured, and the alert is still stored and open
C24_Witness ==
    /\ last.op = "notify"
    /\ last.query = <<Some("hook"), "timeout">>
    /\ last.sent = Some(FALSE)
    /\ last.id \in DOMAIN alerts
    /\ IsOpen(alerts[last.id])

\* C25: in a pass, a (protocol, kind) pair that has resolved alerts gets a
\* new alert exactly when its rule fires and none of the pair's alerts is
\* open; the new alert has an id that no stored alert has, is open and has the
\* time of the pass as triggered_at, and the resolved alerts stay as they were
C25_RealertAfterResolution ==
    [][IsPass(last')
          => \A i \in DOMAIN alerts :
                ~IsOpen(alerts[i])
                   => /\ alerts'[i] = alerts[i]
                      /\ (\E j \in Added : Pair(alerts'[j]) = Pair(alerts[i]))
                            <=> (/\ Fires(snapshots', now, alerts[i])
                                 /\ \A k \in DOMAIN alerts :
                                       Pair(alerts[k]) = Pair(alerts[i])
                                          => ~IsOpen(alerts[k]))
                      /\ \A j \in Added :
                            Pair(alerts'[j]) = Pair(alerts[i])
                               => /\ j > Len(alerts)
                                  /\ IsOpen(alerts'[j])
                                  /\ alerts'[j].triggered_at = now]_vars

\* a pass has created the third alert of a pair whose two earlier alerts are
\* resolved, the first of them triggered in an earlier hour
C25_Witness ==
    /\ IsPass(last)
    /\ \E i, k, j \in DOMAIN alerts :
          /\ i < k /\ k < j
          /\ Pair(alerts[i]) = Pair(alerts[j])
          /\ Pair(alerts[k]) = Pair(alerts[j])
          /\ ~IsOpen(alerts[i]) /\ ~IsOpen(alerts[k])
          /\ IsOpen(alerts[j])
          /\ \E n \in DOMAIN last.created : last.created[n] = j
          /\ alerts[j].triggered_at = now
          /\ alerts[i].triggered_at < now

\* the ids a pass returned
Returned(l) == {l.created[k] : k \in DOMAIN l.created}

\* C26: the list a pass returns holds, once each, the alerts the pass added
\* to the store and no other; each of them is stored, open and triggered at
\* the time of the pass; a pair that had an open alert before the pass, and a
\* pair whose insert failed, has no alert in the list
C26_ReturnedAreNewlyPersisted ==
    [][IsPass(last')
          => /\ \A j \in Returned(last') :
                   /\ j \in DOMAIN alerts' /\ j \notin DOMAIN alerts
                   /\ alerts'[j].resolved_at = None
                   /\ alerts'[j].triggered_at = now
             /\ \A j \in DOMAIN alerts' : j \notin DOMAIN alerts => j \in Returned(last')
             /\ \A m, n \in DOMAIN last'.created :
                   m # n => last'.created[m] # last'.created[n]
             /\ \A j \in Returned(last') :
                   /\ \A i \in DOMAIN alerts :
                         IsOpen(alerts[i]) => Pair(alerts[i]) # Pair(alerts'[j])
                   /\ Pair(alerts'[j]) \notin last'.raised]_vars

\* the alert kind a rule creates
KindOfRule(rule) ==
    CASE rule = "tvl" -> "tvl_drop"
      [] rule = "apy" -> "apy_low"
      [] rule = "util" -> "utilization_high"

\* the (protocol, kind) pairs of the alerts that store B has and store A lacks
PairsAdded(A, B) == {Pair(B[j]) : j \in DOMAIN B \ DOMAIN A}

\* C27: a pass adds one alert for a (protocol, kind) pair exactly when the
\* rule of the pair is due, fires and the pair has no open alert, whatever
\* the other rules and pairs do, and the pairs that get an alert are the same
\* in every order in which the protocols may be visited
C27_RulesIndependent ==
    [][IsPass(last')
          => /\ \A d \in DueRules(ActiveProtocols(snapshots', now)) :
                   LET fires == RuleCandidate(snapshots', now, d[1], d[2]) # {}
                       open == \E i \in DOMAIN alerts :
                                  /\ Pair(alerts[i]) = <<d[1], KindOfRule(d[2])>>
                                  /\ IsOpen(alerts[i])
                   IN  Cardinality(NewOf(d[1], KindOfRule(d[2])))
                          = IF fires /\ ~open THEN 1 ELSE 0
             /\ \A j \in Added :
                   \E d \in DueRules(ActiveProtocols(snapshots', now)) :
                      Pair(alerts'[j]) = <<d[1], KindOfRule(d[2])>>
             /\ \A r \in DetectOutcomes(snapshots', now, alerts) :
                   PairsAdded(alerts, r.alerts) = PairsAdded(alerts, alerts')]_vars

\* a pass has created the tvl_drop, the apy_low and the utilization_high
\* alert of a lending protocol
C27_Witness ==
    /\ IsPass(last)
    /\ Len(last.created) = 3
    /\ \E p \in LENDING_PROTOCOLS :
          {Pair(alerts[last.created[k]]) : k \in DOMAIN last.created}
             = {<<p, "tvl_drop">>, <<p, "apy_low">>, <<p, "utilization_high">>}
    /\ \A k \in DOMAIN last.created : alerts[last.created[k]].triggered_at = now

C29_OpenUntilResolved ==
    [][\A i \in DOMAIN alerts :
          /\ i \in DOMAIN alerts'
          /\ (IsOpen(alerts[i]) /\ ~IsOpen(alerts'[i]))
                => (last'.op = "resolve" /\ last'.id = i /\ last'.code = 200)
          /\ last'.op # "resolve" => alerts'[i] = alerts[i]]_vars

\* a pass has run in a later hour than the one in which an alert was
\* triggered, the rule of the alert no longer fires, and the alert is open
C29_Witness ==
    /\ IsPass(last)
    /\ \E i \in DOMAIN alerts :
          /\ IsOpen(alerts[i])
          /\ alerts[i].triggered_at < now
          /\ ~Fires(snapshots, now, alerts[i])
          /\ \E s \in snapshots :
                s.protocol_name = alerts[i].protocol_name /\ s.timestamp = now

\* C30: the counts a run returns add up to the number of configured
\* protocols, the second of them is the number of tasks that ended in a
\* failure in this run, and the script exits with a non-zero status exactly
\* when that number is positive
C30_CountsAndExit ==
    [][(run.phase = "gather" /\ run'.phase = "returned")
          => /\ last'.counts[1] + last'.counts[2] = Len(PROTOCOLS)
             /\ Len(PROTOCOLS) = 2
             /\ last'.counts[2]
                   = Cardinality({k \in DOMAIN PROTOCOLS : ~run.outcomes[k]})
             /\ last'.counts[1]
                   = Cardinality({k \in DOMAIN PROTOCOLS : run.outcomes[k]})
             /\ (last'.exit # 0) <=> (last'.counts[2] > 0)]_vars

\* a run in which one fetch failed and the other task stored its sample has
\* returned (1, 1) and the script has exited with status 1
C30_Witness ==
    /\ last.op = "run"
    /\ run.phase = "returned"
    /\ last.counts = <<1, 1>>
    /\ last.exit = 1
    /\ \E k \in DOMAIN PROTOCOLS : ~run.fetched[k] /\ ~run.outcomes[k]
    /\ \E k \in DOMAIN PROTOCOLS :
          run.outcomes[k] /\ RowsAt(snapshots, PROTOCOLS[k], run.timestamp) # {}

\* C31: when detect_all raises inside a run, ingest_all still returns, with
\* the counts of the tasks' outcomes (the same as when the pass succeeds),
\* and the samples of the store are the ones the tasks left
C31_DetectionFailureContained ==
    [][(run.phase = "gather" /\ run'.phase = "returned" /\ last'.aborted)
          => /\ ~last'.error
             /\ last'.counts
                   = <<Cardinality({k \in DOMAIN PROTOCOLS : run.outcomes[k]}),
                       Cardinality({k \in DOMAIN PROTOCOLS : ~run.outcomes[k]})>>
             /\ \A d \in DetectOutcomes(snapshots, now, alerts) :
                   Len(d.alerts) <= MaxAlerts
                      => last'.counts = CountOutcomes(run.outcomes)
             /\ snapshots' = snapshots
             /\ \A k \in DOMAIN PROTOCOLS :
                   run.outcomes[k]
                      => RowsAt(snapshots', PROTOCOLS[k], run.timestamp) # {}]_vars

\* a run in which both tasks stored their samples has returned (2, 0) though
\* its pass raised before it created the alert of a rule that fires
C31_Witness ==
    /\ run.phase = "returned"
    /\ last.aborted
    /\ last.counts = <<2, 0>>
    /\ \A k \in DOMAIN PROTOCOLS :
          RowsAt(snapshots, PROTOCOLS[k], run.timestamp) # {}
    /\ \E d \in DueRules(ActiveProtocols(snapshots, now)) :
          \E c \in RuleCandidate(snapshots, now, d[1], d[2]) :
             \A i \in DOMAIN alerts : Pair(alerts[i]) # Pair(c)

\* C32: a call of _store_snapshot that returns False has persisted no row
\* (the store is as before), and after one that returns True the pair has a
\* row, whichever of TVL, APY and utilization the sample carries
C32_StoreResultAgrees ==
    [][last'.op = "store"
          => /\ ~last'.stored[1] => snapshots' = snapshots
             /\ last'.stored[1]
                   => RowsAt(snapshots', PROTOCOLS[last'.id], now) # {}]_vars

\* C33: the row a call of _store_snapshot adds has, for each of TVL, APY and
\* utilization, the fetched value when one is present, 0 included, and no
\* value only when none was fetched
C33_StoredValuesPreserved ==
    [][last'.op = "store"
          => \A s \in snapshots' \ snapshots :
                /\ s.tvl_usd = last'.query[1].tvl_usd
                /\ s.apy_7d = last'.query[1].apy_7d
                /\ s.utilization_rate = last'.query[1].utilization_rate]_vars

\* the rule d = <<protocol, rule>> is due and fires
FiresNow(d) ==
    /\ d[1] \in ActiveProtocols(snapshots, now)
    /\ RuleCandidate(snapshots, now, d[1], d[2]) # {}

\* the pair of rule d has an open alert
HasOpen(d) ==
    \E i \in DOMAIN alerts :
       Pair(alerts[i]) = <<d[1], KindOfRule(d[2])>> /\ IsOpen(alerts[i])

\* C34: whenever the rule of a pair fires, later the pair has an open alert,
\* or the rule has stopped firing, whatever resolutions come between the
\* steps of the passes (within the size of the alert table)
C34_EventuallyAlerted ==
    \A d \in DueRules(AllProtocols) :
       FiresNow(d) ~> (HasOpen(d) \/ ~FiresNow(d) \/ Len(alerts) >= MaxAlerts)

\* a pass has created the open alert of a pair whose earlier alert was
\* resolved while the rule kept firing
C34_Witness ==
    \E d \in DueRules(AllProtocols) :
       /\ FiresNow(d)
       /\ HasOpen(d)
       /\ \E i, j \in DOMAIN alerts :
             /\ i < j
             /\ Pair(alerts[i]) = <<d[1], KindOfRule(d[2])>>
             /\ Pair(alerts[j]) = Pair(alerts[i])
             /\ ~IsOpen(alerts[i]) /\ IsOpen(alerts[j])
             /\ \E n \in DOMAIN created[1] : created[1][n] = j

====
